---- MODULE Spec2Model ----
(***************************************************************************)
(* State-machine model of the storefront's storage layer                   *)
(* (DatabaseStorage) and of the REST handlers built on it                  *)
(* (registerRoutes): cart, checkout, orders, products and stock.           *)
(*                                                                         *)
(* Tables are sets of rows.  Primary keys are gen_random_uuid() in the     *)
(* schema; the model draws them from per-table counters, so a key is never *)
(* reused.  Money is kept in cents: products.preco, order_items.preco and  *)
(* orders.total are numeric(10,2) columns, so the float sum computed by    *)
(* the checkout handler is stored rounded to the cent, which is the exact  *)
(* sum of the cent amounts.                                                *)
(***************************************************************************)
EXTENDS Integers, Sequences, FiniteSets, TLC

VARIABLES products, cart, orders, orderItems, stock, nextId, clock, co, resp,
          categories, tags, productTags, images, body, inflight

vars == <<products, cart, orders, orderItems, stock, nextId, clock, co, resp,
          categories, tags, productTags, images, body, inflight>>

\* The tables of the catalogue that the cart, checkout and stock handlers
\* never write.
catalog == <<categories, tags, productTags, images>>

\* The tables and the checkout frame that the catalogue handlers never write.
shop == <<products, cart, orders, orderItems, stock, clock, co>>

(***************************************************************************)
(* Bounds of the model.                                                    *)
(***************************************************************************)
MaxProducts == 3      \* product rows ever created (seed included)
MaxCartRows == 2      \* cart rows ever inserted
MaxOrders == 1        \* orders ever created
MaxQty == 1           \* largest quantity carried by a request
MaxCartQty == MaxQty + 1   \* largest quantity a cart row is let to reach
MaxClock == 2         \* stock writes (ticks of the updatedAt clock)
MaxCheckouts == 2     \* orders created by checkouts that run side by side
MaxCatalogRows == 3   \* rows of a products table drawn for the query methods
MaxImages == 2        \* product_images rows ever inserted
MaxTags == 2          \* tags ever created
MaxCategories == 3    \* categories ever created
MaxTagRows == 3       \* product_tags rows ever inserted

Users == {"u1", "u2"}
NoUser == "anon"                 \* a session that is not authenticated
None == <<>>                     \* an absent (undefined) field, argument or row
Some(x) == <<x>>                 \* a present one
Prices == {100, 250}             \* valid prices, in cents
Locations == {"default", "L1"}
DefaultLocation == "default"
DefaultQuantidade == 1
DefaultEstoque == 0
Processando == "PROCESSANDO"
MinLimit == 1                    \* limitQuerySchema: .min(1)
MaxLimit == 24                   \* limitQuerySchema: .max(24)
DefaultLimit == 6                \* limitQuerySchema: .default(6); limit = 6
DefaultAlertLimit == 20          \* getStockAlerts(limit: number = 20)
DefaultMinimumStock == 5         \* alert.minimumStock || 5

ProductIds == 1..MaxProducts
CartIds == 1..MaxCartRows
Opt(S) == {None} \cup {Some(x) : x \in S}
QtyInputs == Opt(0..MaxQty)
StockInputs == Opt(-1..MaxQty)
PriceInputs == Opt(Prices \cup {0})
LocationInputs == Opt(Locations)

Max(a, b) == IF a >= b THEN a ELSE b

(***************************************************************************)
(* The last response: the route and the status code; status 0 is "no       *)
(* response yet".                                                          *)
(***************************************************************************)
Resp(op, status) == [op |-> op, status |-> status]

(***************************************************************************)
(* The body of the last response: whether it carries a message, whether it *)
(* carries the validator's error list (errors: parseResult.error.errors),  *)
(* and the array answered by a query route.  The entity echoed by a write  *)
(* route is not modelled.                                                  *)
(***************************************************************************)
NoBody == [message |-> FALSE, errors |-> FALSE, data |-> <<>>]
MessageBody == [message |-> TRUE, errors |-> FALSE, data |-> <<>>]
ErrorsBody == [message |-> TRUE, errors |-> TRUE, data |-> <<>>]
DataBody(rows) == [message |-> FALSE, errors |-> FALSE, data |-> rows]

\* Outcome of a direct call of a storage method: the promise resolved or
\* rejected.
Returned == 1
Threw == -1

(***************************************************************************)
(* The frame of the checkout request in flight (the handler's locals).     *)
(***************************************************************************)
NoOrder == [id |-> 0, userId |-> NoUser, status |-> "", total |-> 0]
IdleFrame == [pc |-> "idle", userId |-> NoUser, cartItems |-> <<>>,
              total |-> 0, order |-> NoOrder, i |-> 0]
Quiescent == co.pc = "idle"

(***************************************************************************)
(* Requests in flight other than the checkout: each slot holds the frame   *)
(* of a handler or storage method suspended at an await.                   *)
(***************************************************************************)
Slots == {1, 2}
IdleCall == [pc |-> "idle", fn |-> "", args |-> <<>>, local |-> <<>>]
NoCalls == [s \in Slots |-> IdleCall]

(***************************************************************************)
(* Initial state: the tables after start-up.  seedProducts fills an empty  *)
(* products table; every other table starts empty.                         *)
(***************************************************************************)
SeedProducts == {[id |-> 1, preco |-> 100, estoque |-> 1],
                 [id |-> 2, preco |-> 250, estoque |-> 0]}

\* The next key of every table.
FirstIds == [product |-> 3, cart |-> 1, order |-> 1, item |-> 1, stock |-> 1,
             category |-> 1, tag |-> 1, productTag |-> 1, image |-> 1]

Init ==
    /\ products = SeedProducts
    /\ cart = {}
    /\ orders = {}
    /\ orderItems = {}
    /\ stock = {}
    /\ nextId = FirstIds
    /\ clock = 0
    /\ co = IdleFrame
    /\ resp = Resp("none", 0)
    /\ categories = {}
    /\ tags = {}
    /\ productTags = {}
    /\ images = {}
    /\ body = NoBody
    /\ inflight = NoCalls

ProductExists(p) == \E r \in products : r.id = p
ProductRow(p) == CHOOSE r \in products : r.id = p

(***************************************************************************)
(* Cart operations of DatabaseStorage.                                     *)
(***************************************************************************)
\* select ... where userId = u and productId = p; the caller destructures
\* the first row.  The query has no ORDER BY, so any matching row may come
\* first; None stands for an empty result.
SelectCartItem(u, p) ==
    LET rows == {r \in cart : r.userId = u /\ r.productId = p}
    IN IF rows = {} THEN {None} ELSE {Some(r) : r \in rows}

\* quantidade || 1
OrOne(q) == IF q = None THEN 1 ELSE IF q[1] = 0 THEN 1 ELSE q[1]

\* insert into cart_items: foreign keys to users and products, and the
\* column default for an absent quantidade.
CartInsertOk(data) == data.userId \in Users /\ ProductExists(data.productId)

InsertedCartRow(data) ==
    [id |-> nextId.cart, userId |-> data.userId, productId |-> data.productId,
     quantidade |-> IF data.quantidade = None THEN DefaultQuantidade
                    ELSE data.quantidade[1]]

\* addToCart without the lookup of the existing row: always inserts.
addToCart_AlwaysInsert(data, existingItem) ==
    IF CartInsertOk(data)
    THEN [ok |-> TRUE, inserted |-> TRUE,
          cart |-> cart \cup {InsertedCartRow(data)}]
    ELSE [ok |-> FALSE, inserted |-> FALSE, cart |-> cart]

\* addToCart that overwrites the quantity of the existing row.
addToCart_Overwrite(data, existingItem) ==
    IF existingItem # None
    THEN [ok |-> TRUE, inserted |-> FALSE,
          cart |-> (cart \ {existingItem[1]}) \cup
                   {[existingItem[1] EXCEPT !.quantidade =
                        OrOne(data.quantidade)]}]
    ELSE IF CartInsertOk(data)
         THEN [ok |-> TRUE, inserted |-> TRUE,
               cart |-> cart \cup {InsertedCartRow(data)}]
         ELSE [ok |-> FALSE, inserted |-> FALSE, cart |-> cart]

\* The table after addToCart(data), existingItem being the first row of the
\* lookup.  ok is FALSE when the insert throws.
addToCart(data, existingItem) ==
    IF existingItem # None
    THEN [ok |-> TRUE, inserted |-> FALSE,
          cart |-> (cart \ {existingItem[1]}) \cup
                   {[existingItem[1] EXCEPT !.quantidade =
                        existingItem[1].quantidade + OrOne(data.quantidade)]}]
    ELSE IF CartInsertOk(data)
         THEN [ok |-> TRUE, inserted |-> TRUE,
               cart |-> cart \cup {InsertedCartRow(data)}]
         ELSE [ok |-> FALSE, inserted |-> FALSE, cart |-> cart]

\* update cart_items set quantidade = q where id = id returning *
updateCartItemQuantity(id, quantidade) ==
    LET hit == {r \in cart : r.id = id}
    IN [found |-> hit # {},
        cart |-> (cart \ hit) \cup
                 {[r EXCEPT !.quantidade = quantidade] : r \in hit}]

removeFromCart(id) == {r \in cart : r.id # id}

\* clearCart without its where clause
clearCart_AllUsers(userId) == {}

clearCart(userId) == {r \in cart : r.userId # userId}

(***************************************************************************)
(* Product operations of DatabaseStorage.                                  *)
(***************************************************************************)
\* insert into products ... returning *; estoque has a column default.
createProduct(insertProduct) ==
    products \cup
    {[id |-> nextId.product, preco |-> insertProduct.preco,
      estoque |-> IF insertProduct.estoque = None THEN DefaultEstoque
                  ELSE insertProduct.estoque[1]]}

\* update products set {...updateData} where id = id returning *: only the
\* fields present in updateData are written.
updateProduct(id, updateData) ==
    LET hit == {r \in products : r.id = id}
        upd(r) == [r EXCEPT
                     !.preco = IF updateData.preco = None THEN @
                               ELSE updateData.preco[1],
                     !.estoque = IF updateData.estoque = None THEN @
                                 ELSE updateData.estoque[1]]
    IN [found |-> hit # {},
        products |-> (products \ hit) \cup {upd(r) : r \in hit}]

\* deleteProduct with the order items of the product deleted along with it.
deleteProduct_CascadeOrderItems(id) ==
    [ok |-> TRUE,
     orderItems |-> {oi \in orderItems : oi.productId # id},
     products |-> {r \in products : r.id # id},
     cart |-> {r \in cart : r.productId # id},
     stock |-> {r \in stock : r.productId # id},
     images |-> {r \in images : r.productId # id},
     productTags |-> {r \in productTags : r.productId # id}]

\* delete from products where id = id.  order_items.product_id references
\* products without ON DELETE, so the statement throws while an order item
\* names the product; cart_items, product_stock, product_images and
\* product_tags rows cascade.
deleteProduct(id) ==
    IF \E oi \in orderItems : oi.productId = id
    THEN [ok |-> FALSE, products |-> products, cart |-> cart,
          stock |-> stock, orderItems |-> orderItems, images |-> images,
          productTags |-> productTags]
    ELSE [ok |-> TRUE, orderItems |-> orderItems,
          products |-> {r \in products : r.id # id},
          cart |-> {r \in cart : r.productId # id},
          stock |-> {r \in stock : r.productId # id},
          images |-> {r \in images : r.productId # id},
          productTags |-> {r \in productTags : r.productId # id}]

(***************************************************************************)
(* Stock operations of DatabaseStorage.                                    *)
(***************************************************************************)
\* location: string = 'default'
LocationOrDefault(location) ==
    IF location = None THEN DefaultLocation ELSE location[1]

SelectStock(productId, location) ==
    LET rows == {r \in stock : r.productId = productId
                                /\ r.localizacao = location}
    IN IF rows = {} THEN {None} ELSE {Some(r) : r \in rows}

\* updateProductStock that mirrors the quantity unclamped into the product.
updateProductStock_RawMirror(productId, quantidade, location, existingStock, now) ==
    LET mirrored ==
            {IF r.id = productId
             THEN [r EXCEPT !.estoque = quantidade] ELSE r : r \in products}
    IN IF existingStock # None
       THEN [ok |-> TRUE, inserted |-> FALSE,
             stock |-> (stock \ {existingStock[1]}) \cup
                       {[existingStock[1] EXCEPT
                           !.quantidade = Max(0, quantidade),
                           !.updatedAt = now]},
             products |-> mirrored]
       ELSE IF ProductExists(productId)
            THEN [ok |-> TRUE, inserted |-> TRUE,
                  stock |-> stock \cup
                            {[id |-> nextId.stock, productId |-> productId,
                              quantidade |-> Max(0, quantidade),
                              localizacao |-> location, updatedAt |-> now]},
                  products |-> mirrored]
            ELSE [ok |-> FALSE, inserted |-> FALSE,
                  stock |-> stock, products |-> products]

\* The tables after updateProductStock(productId, quantidade, location) at
\* time now, existingStock being the first row of the lookup.  The insert
\* throws (before the products update) when the product does not exist.
updateProductStock(productId, quantidade, location, existingStock, now) ==
    LET mirrored ==
            {IF r.id = productId
             THEN [r EXCEPT !.estoque = Max(0, quantidade)] ELSE r :
             r \in products}
    IN IF existingStock # None
       THEN [ok |-> TRUE, inserted |-> FALSE,
             stock |-> (stock \ {existingStock[1]}) \cup
                       {[existingStock[1] EXCEPT
                           !.quantidade = Max(0, quantidade),
                           !.updatedAt = now]},
             products |-> mirrored]
       ELSE IF ProductExists(productId)
            THEN [ok |-> TRUE, inserted |-> TRUE,
                  stock |-> stock \cup
                            {[id |-> nextId.stock, productId |-> productId,
                              quantidade |-> Max(0, quantidade),
                              localizacao |-> location, updatedAt |-> now]},
                  products |-> mirrored]
            ELSE [ok |-> FALSE, inserted |-> FALSE,
                  stock |-> stock, products |-> products]

(***************************************************************************)
(* Query methods of DatabaseStorage over the products table.  Here a       *)
(* products row also carries the columns these queries read: categoria,    *)
(* avaliacao (in tenths), vendas, isFeatured and estoqueMinimo (None for   *)
(* NULL).                                                                  *)
(***************************************************************************)
\* ORDER BY k1, k2 LIMIT limit over entries [row, k1, k2]: every array the
\* database may answer (rows with equal keys come in any order).
RECURSIVE OrderByLimit(_, _)
OrderByLimit(entries, limit) ==
    IF limit = 0 \/ entries = {} THEN {<<>>}
    ELSE LET first == {e \in entries : \A f \in entries :
                          e.k1 < f.k1 \/ (e.k1 = f.k1 /\ e.k2 <= f.k2)}
         IN UNION {{<<e.row>> \o rest :
                      rest \in OrderByLimit(entries \ {e}, limit - 1)} :
                   e \in first}

\* getRelatedProducts without ne(products.id, productId)
getRelatedProducts_WithSelf(productId, limit) ==
    IF ~ProductExists(productId) THEN {<<>>}
    ELSE OrderByLimit(
           {[row |-> r, k1 |-> 0 - r.avaliacao, k2 |-> 0 - r.vendas] :
            r \in {x \in products :
                     x.categoria = ProductRow(productId).categoria}},
           IF limit = None THEN DefaultLimit ELSE limit[1])

\* where id <> productId and categoria = currentProduct.categoria
\* order by avaliacao desc, vendas desc limit limit
getRelatedProducts(productId, limit) ==
    IF ~ProductExists(productId) THEN {<<>>}
    ELSE OrderByLimit(
           {[row |-> r, k1 |-> 0 - r.avaliacao, k2 |-> 0 - r.vendas] :
            r \in {x \in products :
                     /\ x.id # productId
                     /\ x.categoria = ProductRow(productId).categoria}},
           IF limit = None THEN DefaultLimit ELSE limit[1])

\* order by vendas desc, avaliacao desc limit limit
getBestsellingProducts(limit) ==
    OrderByLimit({[row |-> r, k1 |-> 0 - r.vendas, k2 |-> 0 - r.avaliacao] :
                  r \in products},
                 IF limit = None THEN DefaultLimit ELSE limit[1])

\* where isFeatured = true order by vendas desc, avaliacao desc limit limit
getFeaturedProducts(limit) ==
    OrderByLimit({[row |-> r, k1 |-> 0 - r.vendas, k2 |-> 0 - r.avaliacao] :
                  r \in {x \in products : x.isFeatured}},
                 IF limit = None THEN DefaultLimit ELSE limit[1])

\* where estoque <= estoqueMinimo order by estoque - estoqueMinimo limit
\* limit; a comparison with NULL is not true, so a row without a minimum is
\* not selected.  Each row is then mapped with minimumStock || 5.
getStockAlerts(limit) ==
    OrderByLimit(
      {[row |-> [productId |-> r.id, currentStock |-> r.estoque,
                 minimumStock |-> IF r.estoqueMinimo[1] = 0
                                  THEN DefaultMinimumStock
                                  ELSE r.estoqueMinimo[1]],
        k1 |-> r.estoque - r.estoqueMinimo[1], k2 |-> 0] :
       r \in {x \in products : /\ x.estoqueMinimo # None
                                /\ x.estoque <= x.estoqueMinimo[1]}},
      IF limit = None THEN DefaultAlertLimit ELSE limit[1])

(***************************************************************************)
(* Order operations of DatabaseStorage.                                    *)
(***************************************************************************)
\* select cart_items inner join products where userId = userId
getCartItems(userId) ==
    {[id |-> r.id, userId |-> r.userId, productId |-> r.productId,
      quantidade |-> r.quantidade, product |-> ProductRow(r.productId)] :
     r \in {c \in cart : c.userId = userId /\ ProductExists(c.productId)}}

\* The result set handed to the caller as an array: the query has no ORDER
\* BY, so every enumeration of the rows is a possible array.
Arrays(S) ==
    {a \in [1..Cardinality(S) -> S] : \A r \in S : \E k \in DOMAIN a : a[k] = r}

\* insert into orders ... returning *
NewOrder(orderData) ==
    [id |-> nextId.order, userId |-> orderData.userId,
     status |-> orderData.status, total |-> orderData.total]

createOrder(orderData) == orders \cup {NewOrder(orderData)}

\* insert into order_items ... returning *
NewOrderItem(orderItemData) ==
    [id |-> nextId.item, orderId |-> orderItemData.orderId,
     productId |-> orderItemData.productId,
     quantidade |-> orderItemData.quantidade, preco |-> orderItemData.preco]

OrderItemInsertOk(orderItemData) ==
    /\ \E o \in orders : o.id = orderItemData.orderId
    /\ ProductExists(orderItemData.productId)

addOrderItem(orderItemData) == orderItems \cup {NewOrderItem(orderItemData)}

Bump(table) == [nextId EXCEPT ![table] = @ + 1]

\* getOrdersByUser without its where clause on userId
getOrdersByUser_AllUsers(userId) ==
    {[id |-> o.id, userId |-> o.userId, status |-> o.status, total |-> o.total,
      orderItems |->
          {[id |-> oi.id, orderId |-> oi.orderId, productId |-> oi.productId,
            quantidade |-> oi.quantidade, preco |-> oi.preco,
            product |-> ProductRow(oi.productId)] :
           oi \in {x \in orderItems :
                     x.orderId = o.id /\ ProductExists(x.productId)}}] :
     o \in orders}

\* select orders where userId = userId, each with its order_items inner join
\* products
getOrdersByUser(userId) ==
    {[id |-> o.id, userId |-> o.userId, status |-> o.status, total |-> o.total,
      orderItems |->
          {[id |-> oi.id, orderId |-> oi.orderId, productId |-> oi.productId,
            quantidade |-> oi.quantidade, preco |-> oi.preco,
            product |-> ProductRow(oi.productId)] :
           oi \in {x \in orderItems :
                     x.orderId = o.id /\ ProductExists(x.productId)}}] :
     o \in {x \in orders : x.userId = userId}}

(***************************************************************************)
(* Cart routes.  sess is the authenticated user of the session, or NoUser. *)
(***************************************************************************)
Sessions == Users \cup {NoUser}

\* insertCartItemSchema with z.number().min(0)
ValidCartQuantidade_MinZero(q) == q = None \/ q[1] >= 0

\* insertCartItemSchema: quantidade is z.number().min(1), optional because
\* the column has a default.
ValidCartQuantidade(q) == q = None \/ q[1] >= 1

WithinCartBounds(c) == \A r \in c : r.quantidade <= MaxCartQty

Reject(op, status) ==
    /\ resp' = Resp(op, status)
    /\ body' = MessageBody
    /\ UNCHANGED <<products, cart, orders, orderItems, stock, nextId, clock, co,
                   catalog, inflight>>

\* A request refused by safeParse: status 400 with
\* { message, errors: parseResult.error.errors }
RejectInvalid(op) ==
    /\ resp' = Resp(op, 400)
    /\ body' = ErrorsBody
    /\ UNCHANGED <<products, cart, orders, orderItems, stock, nextId, clock, co,
                   catalog, inflight>>

\* GET /api/cart
GetCart(sess) ==
    /\ Quiescent
    /\ IF sess = NoUser THEN Reject("GET /api/cart", 401)
       ELSE /\ resp' = Resp("GET /api/cart", 200)
            /\ \E cartItems \in Arrays(getCartItems(sess)) :
                 body' = DataBody(cartItems)
            /\ UNCHANGED <<shop, nextId, catalog, inflight>>

\* POST /api/cart
PostCart(sess, productId, quantidade) ==
    /\ Quiescent
    /\ IF sess = NoUser THEN Reject("POST /api/cart", 401)
       ELSE IF ~ValidCartQuantidade(quantidade)
       THEN Reject("POST /api/cart", 400)
       ELSE \E existingItem \in SelectCartItem(sess, productId) :
              LET r == addToCart([userId |-> sess, productId |-> productId,
                                  quantidade |-> quantidade], existingItem)
              IN IF ~r.ok THEN Reject("POST /api/cart", 400)
                 ELSE /\ WithinCartBounds(r.cart)
                      /\ r.inserted => nextId.cart <= MaxCartRows
                      /\ cart' = r.cart
                      /\ nextId' = IF r.inserted THEN Bump("cart") ELSE nextId
                      /\ resp' = Resp("POST /api/cart", 201)
                      /\ body' = NoBody
                      /\ UNCHANGED <<products, orders, orderItems, stock,
                                     clock, co, catalog, inflight>>

\* PUT /api/cart/:itemId; typeof quantidade !== "number" || quantidade < 1
PutCart(sess, itemId, quantidade) ==
    /\ Quiescent
    /\ IF sess = NoUser THEN Reject("PUT /api/cart/:itemId", 401)
       ELSE IF quantidade = None \/ quantidade[1] < 1
       THEN Reject("PUT /api/cart/:itemId", 400)
       ELSE LET r == updateCartItemQuantity(itemId, quantidade[1])
            IN IF ~r.found THEN Reject("PUT /api/cart/:itemId", 404)
               ELSE /\ cart' = r.cart
                    /\ resp' = Resp("PUT /api/cart/:itemId", 200)
                    /\ body' = NoBody
                    /\ UNCHANGED <<products, orders, orderItems, stock,
                                   nextId, clock, co, catalog, inflight>>

\* A route that removes the row without looking at the session.
DeleteCart_NoAuth(sess, itemId) ==
    /\ Quiescent
    /\ cart' = removeFromCart(itemId)
    /\ resp' = Resp("DELETE /api/cart/:itemId", 204)
    /\ body' = NoBody
    /\ UNCHANGED <<products, orders, orderItems, stock, nextId,
                   clock, co, catalog, inflight>>

\* DELETE /api/cart/:itemId
DeleteCart(sess, itemId) ==
    /\ Quiescent
    /\ IF sess = NoUser THEN Reject("DELETE /api/cart/:itemId", 401)
       ELSE /\ cart' = removeFromCart(itemId)
            /\ resp' = Resp("DELETE /api/cart/:itemId", 204)
            /\ body' = NoBody
            /\ UNCHANGED <<products, orders, orderItems, stock, nextId,
                           clock, co, catalog, inflight>>

(***************************************************************************)
(* POST /api/checkout.  Every await of the handler is a step; the response *)
(* is sent in the step of the last storage call, and drops the frame.      *)
(***************************************************************************)
\* A total that adds the prices without the quantities.
RECURSIVE SumLines_NoQuantity(_)
SumLines_NoQuantity(items) ==
    IF items = <<>> THEN 0
    ELSE SumLines_NoQuantity(SubSeq(items, 1, Len(items) - 1))
         + items[Len(items)].product.preco

\* cartItems.reduce((sum, item) => sum + parseFloat(item.product.preco) *
\* item.quantidade, 0)
RECURSIVE SumLines(_)
SumLines(items) ==
    IF items = <<>> THEN 0
    ELSE SumLines(SubSeq(items, 1, Len(items) - 1))
         + items[Len(items)].product.preco * items[Len(items)].quantidade

\* authentication check, getCartItems, the empty-cart check and the total
CheckoutStart(sess) ==
    /\ Quiescent
    /\ IF sess = NoUser THEN Reject("POST /api/checkout", 401)
       ELSE IF getCartItems(sess) = {} THEN Reject("POST /api/checkout", 400)
       ELSE /\ \E cartItems \in Arrays(getCartItems(sess)) :
                 co' = [pc |-> "createOrder", userId |-> sess,
                        cartItems |-> cartItems, total |-> SumLines(cartItems),
                        order |-> NoOrder, i |-> 1]
            /\ resp' = Resp("POST /api/checkout", 0)
            /\ body' = NoBody
            /\ UNCHANGED <<products, cart, orders, orderItems, stock, nextId,
                           clock, catalog, inflight>>

\* storage.createOrder({ userId, status: "PROCESSANDO", total })
CheckoutCreateOrder ==
    /\ co.pc = "createOrder"
    /\ LET orderData == [userId |-> co.userId, status |-> Processando,
                         total |-> co.total]
       IN /\ orders' = createOrder(orderData)
          /\ co' = [co EXCEPT !.pc = "addOrderItem",
                              !.order = NewOrder(orderData)]
    /\ nextId' = Bump("order")
    /\ UNCHANGED <<products, cart, orderItems, stock, clock, resp, body,
                   catalog, inflight>>

\* An order line that drops the quantity of the cart row.
OrderItemData_UnitQuantity(order, cartItem) ==
    [orderId |-> order.id, productId |-> cartItem.product.id,
     quantidade |-> 1, preco |-> cartItem.product.preco]

\* { orderId: order.id, productId: cartItem.product.id,
\*   quantidade: cartItem.quantidade, preco: cartItem.product.preco }
OrderItemData(order, cartItem) ==
    [orderId |-> order.id, productId |-> cartItem.product.id,
     quantidade |-> cartItem.quantidade, preco |-> cartItem.product.preco]

\* A loop turn that also takes the ordered quantity from the product's
\* estoque.
CheckoutAddOrderItem_TakesStock ==
    /\ co.pc = "addOrderItem"
    /\ LET orderItemData == OrderItemData(co.order, co.cartItems[co.i])
       IN /\ OrderItemInsertOk(orderItemData)
          /\ orderItems' = addOrderItem(orderItemData)
          /\ products' =
               {IF r.id = orderItemData.productId
                THEN [r EXCEPT !.estoque =
                                 Max(0, @ - orderItemData.quantidade)]
                ELSE r : r \in products}
    /\ nextId' = Bump("item")
    /\ co' = [co EXCEPT !.i = @ + 1,
                        !.pc = IF co.i = Len(co.cartItems) THEN "clearCart"
                               ELSE "addOrderItem"]
    /\ UNCHANGED <<cart, orders, stock, clock, resp, body, catalog, inflight>>

\* one turn of: for (const cartItem of cartItems) await storage.addOrderItem
CheckoutAddOrderItem ==
    /\ co.pc = "addOrderItem"
    /\ LET orderItemData == OrderItemData(co.order, co.cartItems[co.i])
       IN /\ OrderItemInsertOk(orderItemData)
          /\ orderItems' = addOrderItem(orderItemData)
    /\ nextId' = Bump("item")
    /\ co' = [co EXCEPT !.i = @ + 1,
                        !.pc = IF co.i = Len(co.cartItems) THEN "clearCart"
                               ELSE "addOrderItem"]
    /\ UNCHANGED <<products, cart, orders, stock, clock, resp, body,
                   catalog, inflight>>

\* storage.clearCart(userId), then res.status(201)
CheckoutClearCart ==
    /\ co.pc = "clearCart"
    /\ cart' = clearCart(co.userId)
    /\ co' = IdleFrame
    /\ resp' = Resp("POST /api/checkout", 201)
    /\ body' = MessageBody
    /\ UNCHANGED <<products, orders, orderItems, stock, nextId, clock,
                   catalog, inflight>>

\* A catch block that compensates: it removes the order and its items.
CheckoutFail_Compensate ==
    /\ co.pc \in {"createOrder", "addOrderItem", "clearCart"}
    /\ co' = IdleFrame
    /\ resp' = Resp("POST /api/checkout", 500)
    /\ orders' = {o \in orders : o.id # co.order.id}
    /\ orderItems' = {oi \in orderItems : oi.orderId # co.order.id}
    /\ body' = MessageBody
    /\ UNCHANGED <<products, cart, stock, nextId, clock, catalog, inflight>>

\* The pending storage call throws: the catch block answers 500.
CheckoutFail ==
    /\ co.pc \in {"createOrder", "addOrderItem", "clearCart"}
    /\ co' = IdleFrame
    /\ resp' = Resp("POST /api/checkout", 500)
    /\ body' = MessageBody
    /\ UNCHANGED <<products, cart, orders, orderItems, stock, nextId, clock,
                   catalog, inflight>>

\* GET /api/orders
GetOrders(sess) ==
    /\ Quiescent
    /\ IF sess = NoUser THEN Reject("GET /api/orders", 401)
       ELSE /\ resp' = Resp("GET /api/orders", 200)
            /\ \E userOrders \in Arrays(getOrdersByUser(sess)) :
                 body' = DataBody(userOrders)
            /\ UNCHANGED <<shop, nextId, catalog, inflight>>

(***************************************************************************)
(* Admin product and stock routes (the session holds the permission).      *)
(***************************************************************************)
\* insertProductSchema: preco refined by parseFloat(val) > 0, estoque
\* z.number().min(0) and optional (column default)
ValidPreco(preco) == preco[1] > 0

\* insertProductSchema with estoque: z.number()
ValidEstoque_AnyNumber(estoque) == TRUE

ValidEstoque(estoque) == estoque = None \/ estoque[1] >= 0

\* POST /api/admin/products
AdminCreateProduct(preco, estoque) ==
    /\ Quiescent
    /\ IF preco = None \/ ~ValidPreco(preco) \/ ~ValidEstoque(estoque)
       THEN RejectInvalid("POST /api/admin/products")
       ELSE /\ nextId.product <= MaxProducts
            /\ products' = createProduct([preco |-> preco[1],
                                          estoque |-> estoque])
            /\ nextId' = Bump("product")
            /\ resp' = Resp("POST /api/admin/products", 201)
            /\ body' = NoBody
            /\ UNCHANGED <<cart, orders, orderItems, stock, clock, co,
                           catalog, inflight>>

\* PUT /api/admin/products/:id with insertProductSchema.partial()
AdminUpdateProduct(id, preco, estoque) ==
    /\ Quiescent
    /\ IF (preco # None /\ ~ValidPreco(preco)) \/ ~ValidEstoque(estoque)
       THEN RejectInvalid("PUT /api/admin/products/:id")
       ELSE LET r == updateProduct(id, [preco |-> preco, estoque |-> estoque])
            IN IF ~r.found THEN Reject("PUT /api/admin/products/:id", 404)
               ELSE /\ products' = r.products
                    /\ resp' = Resp("PUT /api/admin/products/:id", 200)
                    /\ body' = NoBody
                    /\ UNCHANGED <<cart, orders, orderItems, stock, nextId,
                                   clock, co, catalog, inflight>>

\* DELETE /api/admin/products/:id
AdminDeleteProduct(id) ==
    /\ Quiescent
    /\ IF ~ProductExists(id) THEN Reject("DELETE /api/admin/products/:id", 404)
       ELSE LET r == deleteProduct(id)
            IN IF ~r.ok THEN Reject("DELETE /api/admin/products/:id", 500)
               ELSE /\ products' = r.products
                    /\ cart' = r.cart
                    /\ stock' = r.stock
                    /\ orderItems' = r.orderItems
                    /\ images' = r.images
                    /\ productTags' = r.productTags
                    /\ resp' = Resp("DELETE /api/admin/products/:id", 204)
                    /\ body' = NoBody
                    /\ UNCHANGED <<orders, nextId, clock, co, categories,
                                   tags, inflight>>

\* PUT /api/admin/products/:id/stock;
\* typeof quantidade !== 'number' || quantidade < 0
AdminPutStock(id, quantidade, location) ==
    /\ Quiescent
    /\ IF quantidade = None \/ quantidade[1] < 0
       THEN Reject("PUT /api/admin/products/:id/stock", 400)
       ELSE \E existingStock \in SelectStock(id, LocationOrDefault(location)) :
              LET r == updateProductStock(id, quantidade[1],
                                          LocationOrDefault(location),
                                          existingStock, clock + 1)
              IN IF ~r.ok
                 THEN Reject("PUT /api/admin/products/:id/stock", 500)
                 ELSE /\ clock < MaxClock
                      /\ stock' = r.stock
                      /\ products' = r.products
                      /\ nextId' = IF r.inserted THEN Bump("stock") ELSE nextId
                      /\ clock' = clock + 1
                      /\ resp' = Resp("PUT /api/admin/products/:id/stock", 204)
                      /\ body' = NoBody
                      /\ UNCHANGED <<cart, orders, orderItems, co, catalog,
                                     inflight>>

(***************************************************************************)
(* Product image routes (the session holds the permission).  An image row  *)
(* is [id, productId, isPrimary, ordem]; url and altText are not modelled. *)
(***************************************************************************)
\* update product_images set isPrimary = false where productId = productId;
\* update product_images set isPrimary = true where id = imageId
setPrimaryImage(productId, imageId) ==
    {[r EXCEPT !.isPrimary =
         IF r.id = imageId THEN TRUE
         ELSE IF r.productId = productId THEN FALSE ELSE @] : r \in images}

\* POST /api/admin/products/:id/images: insertProductImageSchema (ordem
\* z.number().min(0)), then addProductImage inserts the row as given; the
\* insert throws when the product does not exist.
AdminAddImage(productId, isPrimary, ordem) ==
    /\ Quiescent
    /\ IF ordem # None /\ ordem[1] < 0
       THEN RejectInvalid("POST /api/admin/products/:id/images")
       ELSE IF ~ProductExists(productId)
       THEN Reject("POST /api/admin/products/:id/images", 500)
       ELSE /\ nextId.image <= MaxImages
            /\ images' = images \cup
                 {[id |-> nextId.image, productId |-> productId,
                   isPrimary |-> IF isPrimary = None THEN FALSE
                                 ELSE isPrimary[1],
                   ordem |-> IF ordem = None THEN 0 ELSE ordem[1]]}
            /\ nextId' = Bump("image")
            /\ resp' = Resp("POST /api/admin/products/:id/images", 201)
            /\ body' = NoBody
            /\ UNCHANGED <<shop, categories, tags, productTags, inflight>>

\* PUT /api/admin/products/:productId/images/:imageId:
\* insertProductImageSchema.partial(), then updateProductImage sets the
\* fields present where id = imageId; an update without fields throws.
AdminUpdateImage(productId, imageId, isPrimary, ordem) ==
    /\ Quiescent
    /\ LET op == "PUT /api/admin/products/:productId/images/:imageId"
           hit == {r \in images : r.id = imageId}
       IN IF ordem # None /\ ordem[1] < 0 THEN RejectInvalid(op)
          ELSE IF isPrimary = None /\ ordem = None THEN Reject(op, 500)
          ELSE IF hit = {} THEN Reject(op, 404)
          ELSE /\ images' = (images \ hit) \cup
                    {[r EXCEPT
                        !.isPrimary = IF isPrimary = None THEN @
                                      ELSE isPrimary[1],
                        !.ordem = IF ordem = None THEN @ ELSE ordem[1]] :
                     r \in hit}
               /\ resp' = Resp(op, 200)
               /\ body' = NoBody
               /\ UNCHANGED <<shop, nextId, categories, tags, productTags,
                              inflight>>

\* DELETE /api/admin/products/:productId/images/:imageId
AdminDeleteImage(productId, imageId) ==
    /\ Quiescent
    /\ images' = {r \in images : r.id # imageId}
    /\ resp' = Resp("DELETE /api/admin/products/:productId/images/:imageId",
                    204)
    /\ body' = NoBody
    /\ UNCHANGED <<shop, nextId, categories, tags, productTags, inflight>>

\* PUT /api/admin/products/:productId/images/:imageId/primary
AdminSetPrimaryImage(productId, imageId) ==
    /\ Quiescent
    /\ images' = setPrimaryImage(productId, imageId)
    /\ resp' =
         Resp("PUT /api/admin/products/:productId/images/:imageId/primary", 204)
    /\ body' = NoBody
    /\ UNCHANGED <<shop, nextId, categories, tags, productTags, inflight>>

\* The PUT routes below /api/admin/products/:productId/images, in the order
\* of their registration; each is the list of its remaining path segments.
PutImageRoutes ==
    << <<":imageId">>, <<":imageId", "primary">>, <<"reorder">> >>

\* The first registered route whose pattern matches the path (0 when none
\* does): a parameter segment matches any segment, a literal only itself.
Dispatch(routes, path) ==
    LET hits == {k \in DOMAIN routes :
                   /\ Len(routes[k]) = Len(path)
                   /\ \A j \in 1..Len(path) :
                        routes[k][j] = ":imageId" \/ routes[k][j] = path[j]}
    IN IF hits = {} THEN 0
       ELSE CHOOSE k \in hits : \A h \in hits : k <= h

\* for (const { id, ordem } of imageOrders)
\*   update product_images set ordem where id = id and productId = productId
RECURSIVE reorderProductImages(_, _)
reorderProductImages(productId, imageOrders) ==
    IF imageOrders = <<>> THEN images
    ELSE LET n == Len(imageOrders)
             before == reorderProductImages(productId,
                                            SubSeq(imageOrders, 1, n - 1))
         IN {IF r.id = imageOrders[n].id /\ r.productId = productId
             THEN [r EXCEPT !.ordem = imageOrders[n].ordem] ELSE r :
             r \in before}

\* PUT /api/admin/products/:productId/images/reorder with a body
\* { imageOrders } (None when it holds no array).  When the path is
\* dispatched to the /images/:imageId route, its handler runs with imageId =
\* "reorder" and a body that holds none of the image fields.
AdminReorderImages(productId, imageOrders) ==
    IF PutImageRoutes[Dispatch(PutImageRoutes, <<"reorder">>)] = <<":imageId">>
    THEN AdminUpdateImage(productId, "reorder", None, None)
    ELSE /\ Quiescent
         /\ IF imageOrders = None
            THEN Reject("PUT /api/admin/products/:productId/images/reorder",
                        400)
            ELSE /\ images' = reorderProductImages(productId, imageOrders[1])
                 /\ resp' =
                      Resp("PUT /api/admin/products/:productId/images/reorder",
                           204)
                 /\ body' = NoBody
                 /\ UNCHANGED <<shop, nextId, categories, tags, productTags,
                                inflight>>

(***************************************************************************)
(* Categories.  A row is [id, parentId]; parentId is None or Some(id) and  *)
(* references categories.id with no ON DELETE action.  nome and slug are   *)
(* fresh with every category.                                              *)
(***************************************************************************)
CategoryExists(id) ==
    \E c \in categories : c.id = id

\* POST /api/admin/categories: insertCategorySchema, then createCategory
AdminCreateCategory(valid, parentId) ==
    /\ Quiescent
    /\ IF ~valid THEN RejectInvalid("POST /api/admin/categories")
       ELSE IF parentId # None /\ ~CategoryExists(parentId[1])
       THEN Reject("POST /api/admin/categories", 500)
       ELSE /\ nextId.category <= MaxCategories
            /\ categories' = categories \cup
                 {[id |-> nextId.category, parentId |-> parentId]}
            /\ nextId' = Bump("category")
            /\ resp' = Resp("POST /api/admin/categories", 201)
            /\ body' = NoBody
            /\ UNCHANGED <<shop, tags, productTags, images, inflight>>

\* PUT /api/admin/categories/:id: insertCategorySchema.partial(), then
\* updateCategory; parentId is None when the body does not name it.
AdminUpdateCategory(id, valid, parentId) ==
    /\ Quiescent
    /\ IF ~valid THEN RejectInvalid("PUT /api/admin/categories/:id")
       ELSE IF ~CategoryExists(id)
       THEN Reject("PUT /api/admin/categories/:id", 404)
       ELSE IF parentId # None /\ parentId[1] # None
               /\ ~CategoryExists(parentId[1][1])
       THEN Reject("PUT /api/admin/categories/:id", 500)
       ELSE /\ categories' =
                 {IF c.id = id /\ parentId # None
                  THEN [c EXCEPT !.parentId = parentId[1]] ELSE c :
                  c \in categories}
            /\ resp' = Resp("PUT /api/admin/categories/:id", 200)
            /\ body' = NoBody
            /\ UNCHANGED <<shop, nextId, tags, productTags, images, inflight>>

\* DELETE /api/admin/categories/:id: getCategory, then deleteCategory, which
\* the reference of a child row refuses
AdminDeleteCategory(id) ==
    /\ Quiescent
    /\ IF ~CategoryExists(id)
       THEN Reject("DELETE /api/admin/categories/:id", 404)
       ELSE IF \E c \in categories : c.parentId = Some(id)
       THEN Reject("DELETE /api/admin/categories/:id", 500)
       ELSE /\ categories' = {c \in categories : c.id # id}
            /\ resp' = Resp("DELETE /api/admin/categories/:id", 204)
            /\ body' = NoBody
            /\ UNCHANGED <<shop, nextId, tags, productTags, images, inflight>>

(***************************************************************************)
(* Tags and product tags.  A tags row is [id] (nome and slug are fresh     *)
(* with every tag); a product_tags row is [id, productId, tagId].          *)
(* product_tags has a unique index on (productId, tagId) and references    *)
(* products and tags.                                                      *)
(***************************************************************************)
\* The rows a statement inserts for the pairs <<productId, tagId>> of a
\* sequence, keyed from the next id on.
NewTagRows(pairs) ==
    {[id |-> nextId.productTag + k - 1, productId |-> pairs[k][1],
      tagId |-> pairs[k][2]] : k \in 1..Len(pairs)}

\* insert into product_tags: refused as a whole on a repeated pair or on a
\* product or tag that does not exist.
TagInsertOk(pairs) ==
    /\ \A k \in 1..Len(pairs) :
         /\ ProductExists(pairs[k][1])
         /\ \E t \in tags : t.id = pairs[k][2]
         /\ \A r \in productTags :
              r.productId # pairs[k][1] \/ r.tagId # pairs[k][2]
    /\ \A j \in 1..Len(pairs) : \A k \in 1..Len(pairs) :
         pairs[j] = pairs[k] => j = k

\* addProductTag on a table without the unique index
addProductTag_NoUniqueIndex(productId, tagId) ==
    IF ProductExists(productId) /\ \E t \in tags : t.id = tagId
    THEN [inserted |-> 1,
          productTags |-> productTags \cup NewTagRows(<<<<productId, tagId>>>>)]
    ELSE [inserted |-> 0, productTags |-> productTags]

\* try { insert } catch { ignore }
addProductTag(productId, tagId) ==
    IF TagInsertOk(<<<<productId, tagId>>>>)
    THEN [inserted |-> 1,
          productTags |-> productTags \cup NewTagRows(<<<<productId, tagId>>>>)]
    ELSE [inserted |-> 0, productTags |-> productTags]

\* delete where productId = productId, then one insert of every tagId; the
\* delete stays when the insert throws.
setProductTags(productId, tagIds) ==
    LET pairs == [k \in 1..Len(tagIds) |-> <<productId, tagIds[k]>>]
        kept == {r \in productTags : r.productId # productId}
    IN IF tagIds = <<>> THEN [ok |-> TRUE, inserted |-> 0, productTags |-> kept]
       ELSE IF \A k \in 1..Len(pairs) :
                 /\ ProductExists(productId)
                 /\ \E t \in tags : t.id = tagIds[k]
                 /\ \A j \in 1..Len(pairs) : tagIds[j] = tagIds[k] => j = k
       THEN [ok |-> TRUE, inserted |-> Len(pairs),
             productTags |-> kept \cup NewTagRows(pairs)]
       ELSE [ok |-> FALSE, inserted |-> 0, productTags |-> kept]

\* POST /api/admin/tags: insertTagSchema (nome and slug of at least one
\* character), then createTag
AdminCreateTag(valid) ==
    /\ Quiescent
    /\ IF ~valid THEN RejectInvalid("POST /api/admin/tags")
       ELSE /\ nextId.tag <= MaxTags
            /\ tags' = tags \cup {[id |-> nextId.tag]}
            /\ nextId' = Bump("tag")
            /\ resp' = Resp("POST /api/admin/tags", 201)
            /\ body' = NoBody
            /\ UNCHANGED <<shop, categories, productTags, images, inflight>>

\* DELETE /api/admin/tags/:id: deleteTag removes the associations, then the tag
AdminDeleteTag(id) ==
    /\ Quiescent
    /\ productTags' = {r \in productTags : r.tagId # id}
    /\ tags' = {t \in tags : t.id # id}
    /\ resp' = Resp("DELETE /api/admin/tags/:id", 204)
    /\ body' = NoBody
    /\ UNCHANGED <<shop, nextId, categories, images, inflight>>

\* POST /api/admin/products/:productId/tags/:tagId
AdminAddProductTag(productId, tagId) ==
    /\ Quiescent
    /\ LET r == addProductTag(productId, tagId)
       IN /\ nextId.productTag + r.inserted <= MaxTagRows + 1
          /\ productTags' = r.productTags
          /\ nextId' = [nextId EXCEPT !.productTag = @ + r.inserted]
    /\ resp' = Resp("POST /api/admin/products/:productId/tags/:tagId", 204)
    /\ body' = NoBody
    /\ UNCHANGED <<shop, categories, tags, images, inflight>>

\* DELETE /api/admin/products/:productId/tags/:tagId: removeProductTag
AdminRemoveProductTag(productId, tagId) ==
    /\ Quiescent
    /\ productTags' = {r \in productTags :
                         r.productId # productId \/ r.tagId # tagId}
    /\ resp' = Resp("DELETE /api/admin/products/:productId/tags/:tagId", 204)
    /\ body' = NoBody
    /\ UNCHANGED <<shop, nextId, categories, tags, images, inflight>>

\* PUT /api/admin/products/:productId/tags; tagIds is None when the body
\* holds no array
AdminSetProductTags(productId, tagIds) ==
    /\ Quiescent
    /\ IF tagIds = None
       THEN Reject("PUT /api/admin/products/:productId/tags", 400)
       ELSE LET r == setProductTags(productId, tagIds[1])
            IN /\ nextId.productTag + r.inserted <= MaxTagRows + 1
               /\ productTags' = r.productTags
               /\ nextId' = [nextId EXCEPT !.productTag = @ + r.inserted]
               /\ resp' = Resp("PUT /api/admin/products/:productId/tags",
                               IF r.ok THEN 204 ELSE 500)
               /\ body' = IF r.ok THEN NoBody ELSE MessageBody
               /\ UNCHANGED <<shop, categories, tags, images, inflight>>

(***************************************************************************)
(* Recommendation routes.  req.query.limit is a sequence of texts: empty   *)
(* when the parameter is absent, one text for ?limit=t, several for a      *)
(* repeated parameter (an array).  A text is a sequence of characters.     *)
(***************************************************************************)
DigitChars == <<"0", "1", "2", "3", "4", "5", "6", "7", "8", "9">>

\* The decimal text of an integer, as a client writes it in the query.
RECURSIVE Numeral(_)
Numeral(n) ==
    IF n < 0 THEN <<"-">> \o Numeral(0 - n)
    ELSE IF n < 10 THEN <<DigitChars[n + 1]>>
    ELSE Numeral(n \div 10) \o <<DigitChars[(n % 10) + 1]>>

\* Number(text) of z.coerce.number(), for texts made of an optional sign,
\* digits and an optional fraction: nan for any other text, else the
\* integer part and whether the fraction is zero.  Number("") is 0.
RECURSIVE DigitsValue(_)
DigitsValue(t) ==
    IF t = <<>> THEN 0
    ELSE DigitsValue(SubSeq(t, 1, Len(t) - 1)) * 10
         + ((CHOOSE i \in 1..10 : DigitChars[i] = t[Len(t)]) - 1)

Number(text) ==
    LET neg == text # <<>> /\ text[1] = "-"
        t == IF neg THEN Tail(text) ELSE text
        dots == {i \in 1..Len(t) : t[i] = "."}
        cut == IF dots = {} THEN Len(t) + 1
               ELSE CHOOSE i \in dots : \A j \in dots : i <= j
        whole == SubSeq(t, 1, cut - 1)
        frac == SubSeq(t, cut + 1, Len(t))
        digits(x) == \A i \in 1..Len(x) : \E d \in 1..10 : DigitChars[d] = x[i]
    IN IF text = <<>> THEN [nan |-> FALSE, whole |-> 0, integral |-> TRUE]
       ELSE IF ~digits(whole) \/ ~digits(frac) \/ (whole = <<>> /\ frac = <<>>)
       THEN [nan |-> TRUE, whole |-> 0, integral |-> FALSE]
       ELSE [nan |-> FALSE,
             whole |-> IF neg THEN 0 - DigitsValue(whole)
                       ELSE DigitsValue(whole),
             integral |-> DigitsValue(frac) = 0]

\* limitQuerySchema with .max(24) dropped
limitQuerySchema_NoMax(limit) ==
    IF limit = <<>> THEN [success |-> TRUE, limit |-> DefaultLimit]
    ELSE LET n == Number(limit[1])
         IN IF n.nan \/ ~n.integral \/ n.whole < MinLimit
            THEN [success |-> FALSE, limit |-> 0]
            ELSE [success |-> TRUE, limit |-> n.whole]

\* limitQuerySchema.safeParse(req.query): the first element of an array,
\* then z.coerce.number().int().min(1).max(24).default(6)
limitQuerySchema(limit) ==
    IF limit = <<>> THEN [success |-> TRUE, limit |-> DefaultLimit]
    ELSE LET n == Number(limit[1])
         IN IF n.nan \/ ~n.integral \/ n.whole < MinLimit \/ n.whole > MaxLimit
            THEN [success |-> FALSE, limit |-> 0]
            ELSE [success |-> TRUE, limit |-> n.whole]

Call(fn, args) == [pc |-> "await", fn |-> fn, args |-> args, local |-> <<>>]

RouteOp(route) ==
    IF route = "related" THEN "GET /api/products/:id/related"
    ELSE IF route = "featured" THEN "GET /api/products/featured"
    ELSE "GET /api/products/bestsellers"

\* GET /api/products/bestsellers, /featured and /:id/related up to the first
\* storage call
GetRecommendations(route, id, limit) ==
    /\ Quiescent /\ inflight = NoCalls
    /\ LET parseResult == limitQuerySchema(limit)
       IN IF ~parseResult.success THEN RejectInvalid(RouteOp(route))
          ELSE /\ inflight' =
                    [inflight EXCEPT ![1] =
                       IF route = "related"
                       THEN Call("getProduct", <<id, parseResult.limit>>)
                       ELSE IF route = "featured"
                       THEN Call("getFeaturedProducts", <<parseResult.limit>>)
                       ELSE Call("getBestsellingProducts",
                                 <<parseResult.limit>>)]
               /\ resp' = Resp(RouteOp(route), 0)
               /\ body' = NoBody
               /\ UNCHANGED <<products, cart, orders, orderItems, stock,
                              nextId, clock, co, catalog>>

\* /:id/related: storage.getProduct answered; 404 or the second storage call
RecommendationsGetProduct ==
    /\ inflight[1].fn = "getProduct"
    /\ IF ~ProductExists(inflight[1].args[1])
       THEN /\ resp' = Resp(resp.op, 404)
            /\ body' = MessageBody
            /\ inflight' = NoCalls
       ELSE /\ inflight' = [inflight EXCEPT ![1] =
                              Call("getRelatedProducts", inflight[1].args)]
            /\ UNCHANGED <<resp, body>>
    /\ UNCHANGED <<products, cart, orders, orderItems, stock, nextId, clock,
                   co, catalog>>

\* the ranking query answered: res.json(rows)
RecommendationsAnswer ==
    /\ inflight[1].fn \in {"getRelatedProducts", "getFeaturedProducts",
                           "getBestsellingProducts"}
    /\ LET a == inflight[1].args
       IN \E rows \in IF inflight[1].fn = "getRelatedProducts"
                      THEN getRelatedProducts(a[1], Some(a[2]))
                      ELSE IF inflight[1].fn = "getFeaturedProducts"
                      THEN getFeaturedProducts(Some(a[1]))
                      ELSE getBestsellingProducts(Some(a[1])) :
            body' = DataBody(rows)
    /\ resp' = Resp(resp.op, 200)
    /\ inflight' = NoCalls
    /\ UNCHANGED <<products, cart, orders, orderItems, stock, nextId, clock,
                   co, catalog>>

\* Direct calls of the query methods.
StorageGetRelatedProducts(productId, limit) ==
    /\ Quiescent /\ inflight = NoCalls
    /\ \E rows \in getRelatedProducts(productId, limit) : body' = DataBody(rows)
    /\ resp' = Resp("getRelatedProducts", Returned)
    /\ UNCHANGED <<products, cart, orders, orderItems, stock, nextId, clock,
                   co, catalog, inflight>>

StorageGetStockAlerts(limit) ==
    /\ Quiescent /\ inflight = NoCalls
    /\ \E rows \in getStockAlerts(limit) : body' = DataBody(rows)
    /\ resp' = Resp("getStockAlerts", Returned)
    /\ UNCHANGED <<products, cart, orders, orderItems, stock, nextId, clock,
                   co, catalog, inflight>>

(***************************************************************************)
(* The shop API (cart routes and checkout), one request at a time.  Any    *)
(* storage call of a checkout may fail, so a cart can be checked out again *)
(* and again: the number of orders is bounded.                             *)
(***************************************************************************)
OrdersBelowBound == Cardinality(orders) < MaxOrders

Next ==
    \/ \E sess \in Sessions, p \in ProductIds, q \in QtyInputs :
         PostCart(sess, p, q)
    \/ \E sess \in Sessions, id \in CartIds, q \in QtyInputs :
         PutCart(sess, id, q)
    \/ \E sess \in Sessions, id \in CartIds : DeleteCart(sess, id)
    \/ \E sess \in Sessions :
         CheckoutStart(sess) /\ (co'.pc # "idle" => OrdersBelowBound)
    \/ CheckoutCreateOrder
    \/ CheckoutAddOrderItem
    \/ CheckoutClearCart
    \/ CheckoutFail

Spec == Init /\ [][Next]_vars

(***************************************************************************)
(* The shop API with its two reading routes.                               *)
(***************************************************************************)
NextSession ==
    \/ Next
    \/ \E sess \in Sessions : GetCart(sess)
    \/ \E sess \in Sessions : GetOrders(sess)

SpecSession == Init /\ [][NextSession]_vars

(***************************************************************************)
(* The shop API with GET /api/orders, while the admin deletes products.    *)
(***************************************************************************)
NextOrders ==
    \/ Next
    \/ \E sess \in Sessions : GetOrders(sess)
    \/ \E id \in ProductIds : AdminDeleteProduct(id)

SpecOrders == Init /\ [][NextOrders]_vars

(***************************************************************************)
(* The admin API (products and stock), one request at a time.              *)
(***************************************************************************)
NextAdmin ==
    \/ \E preco \in PriceInputs, estoque \in StockInputs :
         AdminCreateProduct(preco, estoque)
    \/ \E id \in ProductIds, preco \in PriceInputs, estoque \in StockInputs :
         AdminUpdateProduct(id, preco, estoque)
    \/ \E id \in ProductIds : AdminDeleteProduct(id)
    \/ \E id \in ProductIds, q \in StockInputs, loc \in LocationInputs :
         AdminPutStock(id, q, loc)

SpecAdmin == Init /\ [][NextAdmin]_vars

(***************************************************************************)
(* The shop and the admin API together, one request at a time: a shopper   *)
(* fills a cart and checks out while the admin changes prices, deletes     *)
(* products and adjusts stock.  No storage call fails here, so every order *)
(* consumes the cart rows it was made from.                                *)
(***************************************************************************)
Shopper == "u1"

NextShop ==
    \/ \E p \in ProductIds : PostCart(Shopper, p, None)
    \/ \E id \in CartIds : DeleteCart(Shopper, id)
    \/ CheckoutStart(Shopper)
    \/ CheckoutCreateOrder
    \/ CheckoutAddOrderItem
    \/ CheckoutClearCart
    \/ \E id \in ProductIds, preco \in Prices :
         AdminUpdateProduct(id, Some(preco), None)
    \/ \E id \in ProductIds : AdminDeleteProduct(id)
    \/ \E id \in ProductIds : AdminPutStock(id, Some(0), None)

SpecShop == Init /\ [][NextShop]_vars

(***************************************************************************)
(* Direct calls of the storage methods that write products and stock, with *)
(* any argument of the declared type.                                      *)
(***************************************************************************)
StorageCreateProduct(preco, estoque) ==
    /\ Quiescent
    /\ nextId.product <= MaxProducts
    /\ products' = createProduct([preco |-> preco, estoque |-> estoque])
    /\ nextId' = Bump("product")
    /\ resp' = Resp("createProduct", Returned)
    /\ body' = NoBody
    /\ UNCHANGED <<cart, orders, orderItems, stock, clock, co, catalog,
                   inflight>>

StorageDeleteProduct(id) ==
    /\ Quiescent
    /\ LET r == deleteProduct(id)
       IN IF ~r.ok THEN Reject("deleteProduct", Threw)
          ELSE /\ products' = r.products
               /\ cart' = r.cart
               /\ stock' = r.stock
               /\ orderItems' = r.orderItems
               /\ images' = r.images
               /\ productTags' = r.productTags
               /\ resp' = Resp("deleteProduct", Returned)
               /\ body' = NoBody
               /\ UNCHANGED <<orders, nextId, clock, co, categories, tags,
                              inflight>>

StorageUpdateProductStock(productId, quantidade, location) ==
    /\ Quiescent
    /\ \E existingStock \in SelectStock(productId, LocationOrDefault(location)) :
         LET r == updateProductStock(productId, quantidade,
                                     LocationOrDefault(location),
                                     existingStock, clock + 1)
         IN IF ~r.ok THEN Reject("updateProductStock", Threw)
            ELSE /\ clock < MaxClock
                 /\ stock' = r.stock
                 /\ products' = r.products
                 /\ nextId' = IF r.inserted THEN Bump("stock") ELSE nextId
                 /\ clock' = clock + 1
                 /\ resp' = Resp("updateProductStock", Returned)
                 /\ body' = NoBody
                 /\ UNCHANGED <<cart, orders, orderItems, co, catalog,
                                inflight>>

(***************************************************************************)
(* Calls of updateProductStock that run side by side.  Each call holds a   *)
(* slot of inflight; every await of the method is a step: the lookup of    *)
(* the existing row, the update or insert, and the update of products.     *)
(* args is <<productId, quantidade, location>>, local the row the lookup   *)
(* found.                                                                  *)
(***************************************************************************)
\* const [existingStock] = await db.select()...
UpdateStockLookup(s, productId, quantidade, location) ==
    /\ Quiescent
    /\ inflight[s] = IdleCall
    /\ \E existingStock \in SelectStock(productId, LocationOrDefault(location)) :
         inflight' = [inflight EXCEPT ![s] =
                        [pc |-> "write", fn |-> "updateProductStock",
                         args |-> <<productId, quantidade,
                                    LocationOrDefault(location)>>,
                         local |-> existingStock]]
    /\ UNCHANGED <<shop, nextId, resp, body, catalog>>

\* if (existingStock) update ... where id = existingStock.id; else insert.
\* The update reaches the row that holds the id now, if any; the insert
\* throws when the product does not exist.
UpdateStockWrite(s) ==
    /\ inflight[s].pc = "write"
    /\ inflight[s].fn = "updateProductStock"
    /\ LET a == inflight[s].args
           current == IF inflight[s].local = None THEN {}
                      ELSE {r \in stock : r.id = inflight[s].local[1].id}
           r == updateProductStock(a[1], a[2], a[3],
                                   IF current = {} THEN None
                                   ELSE Some(CHOOSE x \in current : TRUE),
                                   clock + 1)
       IN IF inflight[s].local # None /\ current = {}
          THEN /\ inflight' = [inflight EXCEPT ![s].pc = "mirror"]
               /\ UNCHANGED <<shop, nextId, resp, body, catalog>>
          ELSE IF ~r.ok
          THEN /\ inflight' = [inflight EXCEPT ![s] = IdleCall]
               /\ resp' = Resp("updateProductStock", Threw)
               /\ body' = NoBody
               /\ UNCHANGED <<shop, nextId, catalog>>
          ELSE /\ clock < MaxClock
               /\ stock' = r.stock
               /\ nextId' = IF r.inserted THEN Bump("stock") ELSE nextId
               /\ clock' = clock + 1
               /\ inflight' = [inflight EXCEPT ![s].pc = "mirror"]
               /\ UNCHANGED <<products, cart, orders, orderItems, co, resp,
                              body, catalog>>

\* update products set estoque = Math.max(0, quantidade) where id = productId
UpdateStockMirror(s) ==
    /\ inflight[s].pc = "mirror"
    /\ inflight[s].fn = "updateProductStock"
    /\ LET a == inflight[s].args
       IN products' = IF ProductExists(a[1])
                      THEN updateProductStock(a[1], a[2], a[3], None,
                                              clock).products
                      ELSE products
    /\ inflight' = [inflight EXCEPT ![s] = IdleCall]
    /\ resp' = Resp("updateProductStock", Returned)
    /\ body' = NoBody
    /\ UNCHANGED <<cart, orders, orderItems, stock, nextId, clock, co,
                   catalog>>

NextStorage ==
    \/ \E preco \in Prices, estoque \in Opt(0..MaxQty) :
         StorageCreateProduct(preco, estoque)
    \/ \E id \in ProductIds : StorageDeleteProduct(id)
    \/ \E id \in ProductIds, q \in -1..MaxQty, loc \in LocationInputs :
         StorageUpdateProductStock(id, q, loc)

SpecStorage == Init /\ [][NextStorage]_vars

(***************************************************************************)
(* Two callers of updateProductStock at once, and deleteProduct.            *)
(***************************************************************************)
NextStockCalls ==
    \/ \E s \in Slots, id \in ProductIds, q \in 0..MaxQty,
          loc \in LocationInputs : UpdateStockLookup(s, id, q, loc)
    \/ \E s \in Slots : UpdateStockWrite(s)
    \/ \E s \in Slots : UpdateStockMirror(s)
    \/ \E id \in ProductIds : StorageDeleteProduct(id)

SpecStockCalls == Init /\ [][NextStockCalls]_vars

(***************************************************************************)
(* Calls of addToCart that run side by side: the lookup of the existing    *)
(* row and the update or insert are separate statements.  args is          *)
(* <<cartItemData>>, local the row the lookup found.                       *)
(***************************************************************************)
\* const [existingItem] = await db.select()...
AddToCartLookup(s, userId, productId, quantidade) ==
    /\ Quiescent
    /\ inflight[s] = IdleCall
    /\ \E existingItem \in SelectCartItem(userId, productId) :
         inflight' = [inflight EXCEPT ![s] =
                        [pc |-> "write", fn |-> "addToCart",
                         args |-> <<[userId |-> userId, productId |-> productId,
                                     quantidade |-> quantidade]>>,
                         local |-> existingItem]]
    /\ UNCHANGED <<shop, nextId, resp, body, catalog>>

\* if (existingItem) update set quantidade = existingItem.quantidade +
\* (quantidade || 1) where id = existingItem.id; else insert
AddToCartWrite(s) ==
    /\ inflight[s].pc = "write"
    /\ inflight[s].fn = "addToCart"
    /\ LET data == inflight[s].args[1]
           existingItem == inflight[s].local
           r == IF existingItem # None
                THEN [ok |-> TRUE, inserted |-> FALSE,
                      cart |-> updateCartItemQuantity(
                                 existingItem[1].id,
                                 existingItem[1].quantidade
                                   + OrOne(data.quantidade)).cart]
                ELSE addToCart(data, None)
       IN /\ r.ok => WithinCartBounds(r.cart)
          /\ r.inserted => nextId.cart <= MaxCartRows
          /\ cart' = r.cart
          /\ nextId' = IF r.inserted THEN Bump("cart") ELSE nextId
          /\ resp' = Resp("addToCart", IF r.ok THEN Returned ELSE Threw)
    /\ inflight' = [inflight EXCEPT ![s] = IdleCall]
    /\ body' = NoBody
    /\ UNCHANGED <<products, orders, orderItems, stock, clock, co, catalog>>

NextCartCalls ==
    \/ \E s \in Slots, u \in Users, p \in ProductIds, q \in Opt({1}) :
         AddToCartLookup(s, u, p, q)
    \/ \E s \in Slots : AddToCartWrite(s)

SpecCartCalls == Init /\ [][NextCartCalls]_vars

(***************************************************************************)
(* POST /api/checkout handled side by side with other requests.  The       *)
(* request holds a slot of inflight; args is <<userId>> and local holds    *)
(* the handler's cartItems, total, order and loop index.  Every await is a *)
(* step, and other requests run between the steps.                         *)
(***************************************************************************)
\* authentication check, getCartItems, the empty-cart check and the total
CheckoutCallStart(s, sess) ==
    /\ Quiescent
    /\ inflight[s] = IdleCall
    /\ IF sess = NoUser THEN Reject("POST /api/checkout", 401)
       ELSE IF getCartItems(sess) = {} THEN Reject("POST /api/checkout", 400)
       ELSE /\ nextId.order + Cardinality({t \in Slots :
                                inflight[t].pc = "createOrder"}) <= MaxCheckouts
            /\ \E cartItems \in Arrays(getCartItems(sess)) :
                 inflight' = [inflight EXCEPT ![s] =
                    [pc |-> "createOrder", fn |-> "POST /api/checkout",
                     args |-> <<sess>>,
                     local |-> [cartItems |-> cartItems,
                                total |-> SumLines(cartItems),
                                order |-> NoOrder, i |-> 1]]]
            /\ UNCHANGED <<shop, nextId, resp, body, catalog>>

\* the next await of the handler: createOrder, one addOrderItem of the loop,
\* or clearCart followed by the 201 answer; an insert that throws is
\* answered 500
CheckoutCallStep(s) ==
    /\ inflight[s].fn = "POST /api/checkout"
    /\ LET f == inflight[s].local
           userId == inflight[s].args[1]
           orderData == [userId |-> userId, status |-> Processando,
                         total |-> f.total]
       IN IF inflight[s].pc = "createOrder"
          THEN /\ orders' = createOrder(orderData)
               /\ nextId' = Bump("order")
               /\ inflight' = [inflight EXCEPT
                                 ![s].pc = "addOrderItem",
                                 ![s].local.order = NewOrder(orderData)]
               /\ UNCHANGED <<products, cart, orderItems, stock, clock, co,
                              resp, body, catalog>>
          ELSE IF inflight[s].pc = "addOrderItem"
          THEN LET orderItemData == OrderItemData(f.order, f.cartItems[f.i])
               IN IF ~OrderItemInsertOk(orderItemData)
                  THEN /\ inflight' = [inflight EXCEPT ![s] = IdleCall]
                       /\ resp' = Resp("POST /api/checkout", 500)
                       /\ body' = MessageBody
                       /\ UNCHANGED <<shop, nextId, catalog>>
                  ELSE /\ orderItems' = addOrderItem(orderItemData)
                       /\ nextId' = Bump("item")
                       /\ inflight' = [inflight EXCEPT
                            ![s].local.i = @ + 1,
                            ![s].pc = IF f.i = Len(f.cartItems)
                                      THEN "clearCart" ELSE "addOrderItem"]
                       /\ UNCHANGED <<products, cart, orders, stock, clock,
                                      co, resp, body, catalog>>
          ELSE /\ inflight[s].pc = "clearCart"
               /\ cart' = clearCart(userId)
               /\ inflight' = [inflight EXCEPT ![s] = IdleCall]
               /\ resp' = Resp("POST /api/checkout", 201)
               /\ body' = MessageBody
               /\ UNCHANGED <<products, orders, orderItems, stock, nextId,
                              clock, co, catalog>>

\* One shopper's cart requests and checkouts, side by side.
NextCheckoutCalls ==
    \/ \E s \in Slots, p \in ProductIds : AddToCartLookup(s, Shopper, p, None)
    \/ \E s \in Slots : AddToCartWrite(s)
    \/ \E id \in CartIds, q \in QtyInputs : PutCart(Shopper, id, q)
    \/ \E s \in Slots, sess \in {Shopper, NoUser} : CheckoutCallStart(s, sess)
    \/ \E s \in Slots : CheckoutCallStep(s)

SpecCheckoutCalls == Init /\ [][NextCheckoutCalls]_vars

(***************************************************************************)
(* The query methods and the recommendation routes over a products table   *)
(* that does not change.  The table is one of: every table of              *)
(* MaxCatalogRows rows over the ranking columns, every such table over the *)
(* stock columns, or a table with more rows than the largest limit.        *)
(***************************************************************************)
CatalogRow(id, categoria, avaliacao, vendas, isFeatured, estoque, minimo) ==
    [id |-> id, preco |-> 100, estoque |-> estoque, categoria |-> categoria,
     avaliacao |-> avaliacao, vendas |-> vendas, isFeatured |-> isFeatured,
     estoqueMinimo |-> minimo]

RankingTables ==
    {{CatalogRow(id, f[id][1], f[id][2], f[id][3], id # 2, 0,
                 Some(DefaultMinimumStock)) : id \in 1..MaxCatalogRows} :
     f \in [1..MaxCatalogRows -> {"a", "b"} \X {40, 50} \X {0, 1}]}

StockTables ==
    {{CatalogRow(id, "a", 50, 0, FALSE, f[id][1], f[id][2]) :
      id \in 1..MaxCatalogRows} :
     f \in [1..MaxCatalogRows -> {0, 6} \X Opt({0, 5})]}

LargeTable ==
    {CatalogRow(id, "a", 40 + (id % 2) * 10, id, TRUE, id,
                Some(MaxLimit + 2)) : id \in 1..(MaxLimit + 2)}

InitTables(tables) ==
    /\ products \in tables
    /\ cart = {}
    /\ orders = {}
    /\ orderItems = {}
    /\ stock = {}
    /\ nextId = FirstIds
    /\ clock = 0
    /\ co = IdleFrame
    /\ resp = Resp("none", 0)
    /\ categories = {}
    /\ tags = {}
    /\ productTags = {}
    /\ images = {}
    /\ body = NoBody
    /\ inflight = NoCalls

\* Direct calls of getRelatedProducts and getStockAlerts.
CallLimits == Opt({0, 1, 2, MaxLimit})

NextCatalog ==
    \/ \E id \in 1..(MaxCatalogRows + 1), limit \in CallLimits :
         StorageGetRelatedProducts(id, limit)
    \/ \E limit \in CallLimits : StorageGetStockAlerts(limit)

SpecCatalog ==
    InitTables(RankingTables \cup StockTables \cup {LargeTable})
    /\ [][NextCatalog]_vars

\* Requests to the recommendation routes.
QueryLimits ==
    {<<>>, <<<<>>>>, <<<<"a">>>>, <<<<"2", ".", "5">>>>,
     <<Numeral(2), Numeral(MaxLimit + 1)>>}
    \cup {<<Numeral(n)>> : n \in {-1, 0, 1, MaxLimit, MaxLimit + 1}}

NextRecommend ==
    \/ \E route \in {"bestsellers", "featured", "related"},
          limit \in QueryLimits :
         \E id \in IF route = "related" THEN {1, 2, MaxCatalogRows + 1} ELSE {1} :
            GetRecommendations(route, id, limit)
    \/ RecommendationsGetProduct
    \/ RecommendationsAnswer

SpecRecommend ==
    InitTables({t \in RankingTables : \A x \in t : x.avaliacao = 50}
               \cup {LargeTable})
    /\ [][NextRecommend]_vars

(***************************************************************************)
(* The product image routes, one request at a time.                        *)
(***************************************************************************)
ImageOrderArrays ==
    UNION {[1..n -> [id : 1..MaxImages, ordem : {0, 1}]] : n \in 0..1}

NextImages ==
    \/ \E p \in ProductIds, isPrimary \in Opt(BOOLEAN), ordem \in Opt({-1, 1}) :
         AdminAddImage(p, isPrimary, ordem)
    \/ \E p \in ProductIds, id \in 1..MaxImages, isPrimary \in Opt(BOOLEAN),
          ordem \in Opt({-1, 1}) : AdminUpdateImage(p, id, isPrimary, ordem)
    \/ \E p \in ProductIds, id \in 1..MaxImages : AdminDeleteImage(p, id)
    \/ \E p \in ProductIds, id \in 1..MaxImages : AdminSetPrimaryImage(p, id)
    \/ \E p \in ProductIds, imageOrders \in Opt(ImageOrderArrays) :
         AdminReorderImages(p, imageOrders)

SpecImages == Init /\ [][NextImages]_vars

(***************************************************************************)
(* The tag routes, one request at a time, for the seeded products.         *)
(***************************************************************************)
TagIdArrays ==
    UNION {[1..n -> 1..MaxTags] : n \in 0..2}

NextTags ==
    \/ \E valid \in BOOLEAN : AdminCreateTag(valid)
    \/ \E id \in 1..MaxTags : AdminDeleteTag(id)
    \/ \E pr \in SeedProducts, t \in 1..MaxTags : AdminAddProductTag(pr.id, t)
    \/ \E pr \in SeedProducts, t \in 1..MaxTags :
         AdminRemoveProductTag(pr.id, t)
    \/ \E pr \in SeedProducts, tagIds \in Opt(TagIdArrays) :
         AdminSetProductTags(pr.id, tagIds)

SpecTags == Init /\ [][NextTags]_vars

(***************************************************************************)
(* The category routes, one request at a time.                             *)
(***************************************************************************)
NextCategories ==
    \/ \E valid \in BOOLEAN, parentId \in Opt(1..MaxCategories) :
         AdminCreateCategory(valid, parentId)
    \/ \E id \in 1..MaxCategories, valid \in BOOLEAN,
          parentId \in Opt(Opt(1..MaxCategories)) :
         AdminUpdateCategory(id, valid, parentId)
    \/ \E id \in 1..MaxCategories : AdminDeleteCategory(id)

SpecCategories == Init /\ [][NextCategories]_vars

(***************************************************************************)
(* Properties of the cart.                                                 *)
(***************************************************************************)
CartRowsOf(u) == {r \in cart : r.userId = u}
CartRowsFor(u, p) == {r \in cart : r.userId = u /\ r.productId = p}

\* C1: after any sequence of cart operations executed one at a time,
\* cart_items holds at most one row for each (user, product) pair.
C1_OneRowPerUserProduct ==
    \A r1 \in cart : \A r2 \in cart :
       (r1.userId = r2.userId /\ r1.productId = r2.productId) => r1 = r2

\* addToCart has acted on a pair that already had a row: a row holds more
\* than any single request can carry.
C1_Witness ==
    /\ resp = Resp("POST /api/cart", 201)
    /\ \E r \in cart : r.quantidade > MaxQty

\* C2: addToCart(user, product, q) with q >= 1 that returns: a row that
\* exists for (user, product) with quantity n ends with quantity n + q and
\* keeps its id, otherwise one new row with quantity q is created; no other
\* cart row changes.
C2_AddToCartEffect ==
    [][\A u \in Users : \A p \in ProductIds : \A q \in 1..MaxQty :
          (resp' = Resp("POST /api/cart", 201) /\ PostCart(u, p, Some(q))) =>
             IF CartRowsFor(u, p) # {}
             THEN \E r \in CartRowsFor(u, p) :
                    cart' = (cart \ {r}) \cup
                            {[r EXCEPT !.quantidade = r.quantidade + q]}
             ELSE \E n \in cart' \ cart :
                    /\ n.userId = u /\ n.productId = p /\ n.quantidade = q
                    /\ \A r \in cart : r.id # n.id
                    /\ cart' = cart \cup {n}]_vars

\* Both branches were taken: one row was incremented past what a request
\* carries while another row, inserted later, sits next to it.
C2_Witness ==
    /\ resp = Resp("POST /api/cart", 201)
    /\ \E r \in cart : \E n \in cart :
         r.id < n.id /\ r.quantidade > MaxQty /\ n.quantidade = MaxQty

\* C3: through POST /api/cart and PUT /api/cart/:itemId every cart row keeps
\* quantidade >= 1, and an authenticated request carrying a quantity below 1
\* is answered 400 and changes no cart row.
C3_QuantityFloor ==
    /\ [](\A r \in cart : r.quantidade >= 1)
    /\ [][(resp'.status = 400 /\ cart' = cart) \/
          \A u \in Users : \A q \in QtyInputs :
            (q # None /\ q[1] < 1) =>
               /\ \A p \in ProductIds : ~PostCart(u, p, q)
               /\ \A id \in CartIds : ~PutCart(u, id, q)
       ]_vars

\* A cart update was refused with 400 while the cart holds a row.
C3_Witness ==
    /\ resp = Resp("PUT /api/cart/:itemId", 400)
    /\ cart # {}

(***************************************************************************)
(* Properties of the checkout.  A checkout that answers 201 runs           *)
(* CheckoutStart, CheckoutCreateOrder, CheckoutAddOrderItem once per cart  *)
(* row and CheckoutClearCart, which sends the response; no other request   *)
(* runs in between.                                                        *)
(***************************************************************************)
ItemsOfOrder(o) == {oi \in orderItems : oi.orderId = o.id}

\* sum of product price x row quantity over a set of cart rows
RECURSIVE CartTotal(_)
CartTotal(rows) ==
    IF rows = {} THEN 0
    ELSE LET r == CHOOSE x \in rows : TRUE
         IN ProductRow(r.productId).preco * r.quantidade
            + CartTotal(rows \ {r})

\* C4: a checkout that answers 201 creates exactly one order, owned by the
\* authenticated user, with status PROCESSANDO and a total equal to the sum
\* of price x quantity over the cart rows it read.
C4_CheckoutOrder ==
    [][/\ CheckoutClearCart =>
            /\ resp' = Resp("POST /api/checkout", 201)
            /\ orders' = orders
            /\ \E o \in orders :
                 /\ o = co.order
                 /\ \A o2 \in orders : o2.id = o.id => o2 = o
                 /\ o.userId = co.userId
                 /\ o.status = "PROCESSANDO"
                 /\ o.total = CartTotal(CartRowsOf(co.userId))
       /\ CheckoutCreateOrder =>
            /\ co'.order \notin orders
            /\ orders' = orders \cup {co'.order}
       /\ (CheckoutAddOrderItem \/ \E u \in Users : CheckoutStart(u)) =>
            orders' = orders
      ]_vars

\* A checkout answered 201 for a cart in which a row held a quantity > 1.
C4_Witness ==
    /\ resp = Resp("POST /api/checkout", 201)
    /\ \E o \in orders : \E oi \in ItemsOfOrder(o) :
         oi.quantidade > 1 /\ o.total >= oi.quantidade * oi.preco

\* C5: a checkout that answers 201 creates exactly one order item per cart
\* row it read, with that row's product and quantity and the product's
\* price, and no order item for another product or another order.
C5_CheckoutOrderItems ==
    [][/\ CheckoutClearCart =>
            LET rows == CartRowsOf(co.userId)
                mine == ItemsOfOrder(co.order)
            IN /\ resp' = Resp("POST /api/checkout", 201)
               /\ orderItems' = orderItems
               /\ Cardinality(mine) = Cardinality(rows)
               /\ \A r \in rows :
                    Cardinality({oi \in mine :
                        /\ oi.productId = r.productId
                        /\ oi.quantidade = r.quantidade
                        /\ oi.preco = ProductRow(r.productId).preco}) = 1
       /\ CheckoutAddOrderItem =>
            \E oi \in orderItems' \ orderItems :
               /\ orderItems' = orderItems \cup {oi}
               /\ oi.orderId = co.order.id
               /\ \E r \in CartRowsOf(co.userId) : r.productId = oi.productId
       /\ (CheckoutCreateOrder \/ \E u \in Users : CheckoutStart(u)) =>
            orderItems' = orderItems
      ]_vars

\* A checkout answered 201 for a cart of two rows.
C5_Witness ==
    /\ resp = Resp("POST /api/checkout", 201)
    /\ \E o \in orders : Cardinality(ItemsOfOrder(o)) = 2

\* C6: when a checkout answers 201 the user's cart has no rows and the rows
\* of every other user are unchanged; a checkout step removes cart rows only
\* when the order and all its order items are already inserted.
C6_CartClearedLast ==
    [][/\ CheckoutClearCart =>
            /\ resp' = Resp("POST /api/checkout", 201)
            /\ {r \in cart' : r.userId = co.userId} = {}
            /\ {r \in cart' : r.userId # co.userId}
                 = {r \in cart : r.userId # co.userId}
       /\ (co.pc # "idle" /\ cart' # cart) =>
            /\ co.order \in orders
            /\ \A k \in DOMAIN co.cartItems :
                 \E oi \in ItemsOfOrder(co.order) :
                    /\ oi.productId = co.cartItems[k].productId
                    /\ oi.quantidade = co.cartItems[k].quantidade
      ]_vars

\* A checkout answered 201 while another user holds a cart row.
C6_Witness ==
    /\ resp = Resp("POST /api/checkout", 201)
    /\ cart # {}
    /\ \E o \in orders : CartRowsOf(o.userId) = {} /\ ItemsOfOrder(o) # {}

\* C7: when a storage call of the checkout fails after the order row was
\* inserted, the request answers 500, the order and the order items already
\* inserted remain, every cart row of the user is still present and no
\* table changes.
C7_NoRollback ==
    [][(co.pc \in {"addOrderItem", "clearCart"} /\ CheckoutFail) =>
          /\ resp' = Resp("POST /api/checkout", 500)
          /\ co.order \in orders'
          /\ orders' = orders
          /\ orderItems' = orderItems
          /\ Cardinality({oi \in orderItems' : oi.orderId = co.order.id})
               = co.i - 1
          /\ cart' = cart
          /\ \A k \in DOMAIN co.cartItems :
               \E r \in cart' : /\ r.id = co.cartItems[k].id
                                /\ r.quantidade = co.cartItems[k].quantidade
      ]_vars

\* A checkout failed between its two order items: the order holds one item
\* and the user's cart still holds both rows.
C7_Witness ==
    /\ resp = Resp("POST /api/checkout", 500)
    /\ \E o \in orders :
         /\ Cardinality(ItemsOfOrder(o)) = 1
         /\ Cardinality(CartRowsOf(o.userId)) = 2

(***************************************************************************)
(* Properties of orders and stock.                                         *)
(***************************************************************************)
\* C8: once an order item is created, its product, quantity and price never
\* change and it is never deleted, whatever operation follows.
C8_OrderItemsImmutable ==
    [][\A oi \in orderItems : oi \in orderItems']_vars

\* After an order item was created, the price of its product was changed,
\* its stock was adjusted and a later checkout has ordered the product again.
C8_Witness ==
    /\ resp = Resp("POST /api/checkout", 201)
    /\ \E oi \in orderItems : \E oi2 \in orderItems :
         /\ oi.orderId < oi2.orderId
         /\ oi.productId = oi2.productId
         /\ oi.preco # oi2.preco
         /\ \E r \in stock : r.productId = oi.productId

StockRowsFor(p, l) == {r \in stock : r.productId = p /\ r.localizacao = l}
ClaimedLocation(loc) == IF loc = None THEN "default" ELSE loc[1]
ClaimedQuantity(q) == IF q < 0 THEN 0 ELSE q

\* C9: after updateProductStock(p, q, loc) completes for an existing product
\* p, the one product_stock row for (p, loc) holds max(0, q) (the existing
\* row updated, or a new row inserted when there was none) and
\* products.estoque of p is max(0, q); an omitted loc means 'default'.
C9_UpdateProductStock ==
    [][\A p \in ProductIds : \A q \in -1..MaxQty : \A loc \in LocationInputs :
          (/\ resp' = Resp("updateProductStock", Returned)
           /\ ProductExists(p)
           /\ StorageUpdateProductStock(p, q, loc)) =>
             LET l == ClaimedLocation(loc)
                 old == StockRowsFor(p, l)
                 new == {r \in stock' : r.productId = p /\ r.localizacao = l}
             IN /\ Cardinality(new) = 1
                /\ \A r \in new : r.quantidade = ClaimedQuantity(q)
                /\ IF old # {}
                   THEN /\ {r.id : r \in new} = {r.id : r \in old}
                        /\ {r.id : r \in stock'} = {r.id : r \in stock}
                   ELSE Cardinality(stock') = Cardinality(stock) + 1
                /\ \A r \in stock : r \notin old => r \in stock'
                /\ \A r \in products' :
                     r.id = p => r.estoque = ClaimedQuantity(q)
                /\ \E r \in products' : r.id = p]_vars

\* updateProductStock has inserted a 'default' row and then written it again
\* with a quantity that brought a stocked product down to zero.
C9_Witness ==
    /\ resp = Resp("updateProductStock", Returned)
    /\ \E r \in stock : \E pr \in SeedProducts :
         /\ r.productId = pr.id /\ pr.estoque > 0
         /\ r.localizacao = "default"
         /\ r.quantidade = 0
         /\ r.updatedAt = clock /\ clock > 1
         /\ ProductExists(pr.id) /\ ProductRow(pr.id).estoque = 0

LatestStockRows(p) ==
    {r \in stock : /\ r.productId = p
                   /\ \A r2 \in stock :
                        r2.productId = p => r2.updatedAt <= r.updatedAt}

\* C10: in every state reachable through the admin API (product create,
\* product update, stock update), for each product that has a product_stock
\* row, products.estoque equals the quantidade of the product_stock row most
\* recently written for that product.
C10_StockInSync ==
    \A pr \in products :
       \A r \in LatestStockRows(pr.id) : pr.estoque = r.quantidade

\* C11: in every state reachable through product create, product update and
\* stock update, products.estoque >= 0 and every product_stock.quantidade
\* >= 0; a request carrying a negative quantity is either rejected with 400,
\* changing nothing, or stores 0 in its place.
C11_StockNeverNegative ==
    /\ []((\A pr \in products : pr.estoque >= 0)
          /\ (\A r \in stock : r.quantidade >= 0))
    /\ [][\/ resp'.status = 400 /\ products' = products /\ stock' = stock
          \/ \A q \in StockInputs : (q # None /\ q[1] < 0) =>
                /\ \A preco \in PriceInputs : ~AdminCreateProduct(preco, q)
                /\ \A id \in ProductIds :
                     /\ \A preco \in PriceInputs :
                          ~AdminUpdateProduct(id, preco, q)
                     /\ \A loc \in LocationInputs :
                          AdminPutStock(id, q, loc) =>
                             /\ resp'.status = 204
                             /\ \A pr \in products' :
                                  pr.id = id => pr.estoque = 0
                             /\ \A r \in stock' \ stock : r.quantidade = 0
       ]_vars

\* A stock update carrying a negative quantity was refused while the product
\* table holds a product brought down to zero by an earlier stock update.
C11_Witness ==
    /\ resp = Resp("PUT /api/admin/products/:id/stock", 400)
    /\ \E r \in stock : \E pr \in products :
         r.productId = pr.id /\ r.quantidade = 0 /\ pr.estoque = 0

C13_LimitQuery ==
    /\ [](Len(body.data) <= 24)
    /\ [][/\ \A route \in {"bestsellers", "featured", "related"} :
             \A id \in {1, 2, MaxCatalogRows + 1} :
                resp'.op # RouteOp(route) \/ inflight # NoCalls \/
                LET refused == /\ resp' = Resp(RouteOp(route), 400)
                               /\ inflight' = NoCalls
                    passed(n) ==
                       /\ resp'.status = 0
                       /\ inflight'[1].pc = "await"
                       /\ inflight'[1].args[Len(inflight'[1].args)] = n
                IN /\ \A n \in {-1, 0, 1, 24, 25} :
                        GetRecommendations(route, id, <<Numeral(n)>>) =>
                           IF n >= 1 /\ n <= 24 THEN passed(n) ELSE refused
                   /\ \A t \in {<<>>, <<"a">>, <<"2", ".", "5">>} :
                        GetRecommendations(route, id, <<t>>) => refused
                   /\ GetRecommendations(route, id, <<>>) => passed(6)
          /\ RecommendationsGetProduct =>
                \/ resp'.status = 404 /\ inflight' = NoCalls
                \/ inflight'[1].args = inflight[1].args
          /\ RecommendationsAnswer =>
                /\ resp'.status = 200
                /\ Len(body'.data)
                     <= inflight[1].args[Len(inflight[1].args)]
       ]_vars

\* A route answered the largest limit's worth of rows from a table that
\* holds more.
C13_Witness ==
    /\ resp = Resp("GET /api/products/:id/related", 200)
    /\ Len(body.data) = 24
    /\ Cardinality({x \in products : x.id # 1}) > 24

\* C14: getStockAlerts(limit) returns the first `limit` (20 when absent)
\* entries of the products whose estoque <= minimum, a null estoqueMinimo
\* counting as 5, sorted by ascending estoque - minimum.
C14_StockAlerts ==
    [][\A limit \in CallLimits :
          (/\ resp' = Resp("getStockAlerts", Returned)
           /\ StorageGetStockAlerts(limit)) =>
             LET minimum(x) == IF x.estoqueMinimo = None THEN 5
                               ELSE x.estoqueMinimo[1]
                 low == {x \in products : x.estoque <= minimum(x)}
                 n == IF limit = None THEN 20 ELSE limit[1]
                 rows == body'.data
                 deficit(id) ==
                    LET x == CHOOSE y \in products : y.id = id
                    IN x.estoque - minimum(x)
             IN /\ Len(rows) = IF n < Cardinality(low) THEN n
                               ELSE Cardinality(low)
                /\ \A i \in 1..Len(rows) :
                     /\ \E x \in low : x.id = rows[i].productId
                     /\ \A j \in 1..Len(rows) :
                          i < j =>
                            /\ rows[i].productId # rows[j].productId
                            /\ deficit(rows[i].productId)
                                 <= deficit(rows[j].productId)
                     /\ \A x \in low :
                          (\A j \in 1..Len(rows) : rows[j].productId # x.id)
                             => deficit(rows[i].productId)
                                  <= x.estoque - minimum(x)]_vars

\* C21: each alert returned by getStockAlerts reports currentStock equal to
\* the product's estoque and minimumStock equal to the product's configured
\* estoqueMinimo; 5 is substituted only when estoqueMinimo is null (a
\* configured minimum of 0 is reported as 0).
C21_AlertValues ==
    [][\A limit \in CallLimits :
          (/\ resp' = Resp("getStockAlerts", Returned)
           /\ StorageGetStockAlerts(limit)) =>
             \A i \in 1..Len(body'.data) :
                \E x \in products :
                   /\ x.id = body'.data[i].productId
                   /\ body'.data[i].currentStock = x.estoque
                   /\ body'.data[i].minimumStock =
                        IF x.estoqueMinimo = None THEN 5
                        ELSE x.estoqueMinimo[1]]_vars

(***************************************************************************)
(* Properties of images, tags and categories.                              *)
(***************************************************************************)
\* C15: in every state reachable through the image endpoints (add, update,
\* delete, set primary, reorder) each product has at most one image with
\* isPrimary = true.
C15_OnePrimaryImage ==
    \A r1 \in images : \A r2 \in images :
       (r1.productId = r2.productId /\ r1.isPrimary /\ r2.isPrimary) => r1 = r2

\* C16: after any sequence of addProductTag, removeProductTag, setProductTags
\* and deleteTag, product_tags holds at most one row per (product, tag)
\* pair; addProductTag for a pair that is already present leaves the table
\* unchanged and still reports success.
C16_OneRowPerProductTag ==
    /\ [](\A r1 \in productTags : \A r2 \in productTags :
            (r1.productId = r2.productId /\ r1.tagId = r2.tagId) => r1 = r2)
    /\ [][\A pr \in SeedProducts : \A t \in 1..MaxTags :
            (/\ \E r \in productTags : r.productId = pr.id /\ r.tagId = t
             /\ AdminAddProductTag(pr.id, t)) =>
               /\ productTags' = productTags
               /\ resp'.status = 204]_vars

\* The last request added a tag to a product and inserted no row, although
\* every tag and product it could name exists: the pair was already present.
C16_Witness ==
    /\ resp = Resp("POST /api/admin/products/:productId/tags/:tagId", 204)
    /\ \A t \in 1..MaxTags : \E x \in tags : x.id = t
    /\ productTags # {}
    /\ \A r \in productTags : r.id # nextId.productTag - 1

\* C17: categories always form a tree: following parentId from any category
\* reaches a category with a null parent without visiting any category
\* twice (no category is its own ancestor).
C17_CategoryTree ==
    LET RECURSIVE ReachesRoot(_, _)
        ReachesRoot(id, steps) ==
            LET c == CHOOSE x \in categories : x.id = id
            IN \/ c.parentId = None
               \/ /\ steps > 0
                  /\ CategoryExists(c.parentId[1])
                  /\ ReachesRoot(c.parentId[1], steps - 1)
    IN \A c \in categories : ReachesRoot(c.id, Cardinality(categories) - 1)

(***************************************************************************)
(* Properties of the responses.                                            *)
(***************************************************************************)
\* C18: a rejected cart, checkout or orders request changes nothing: every
\* such request from an unauthenticated session is answered 401, and any
\* request these routes answer with 400, 401 or 404 leaves every table
\* unchanged.
C18_RejectedRequestChangesNothing ==
    [][/\ (\/ GetCart(NoUser)
           \/ \E p \in ProductIds, q \in QtyInputs : PostCart(NoUser, p, q)
           \/ \E id \in CartIds, q \in QtyInputs : PutCart(NoUser, id, q)
           \/ \E id \in CartIds : DeleteCart(NoUser, id)
           \/ CheckoutStart(NoUser)
           \/ GetOrders(NoUser)) => resp'.status = 401
       /\ (/\ \E sess \in Sessions :
                \/ GetCart(sess)
                \/ \E p \in ProductIds, q \in QtyInputs : PostCart(sess, p, q)
                \/ \E id \in CartIds, q \in QtyInputs : PutCart(sess, id, q)
                \/ \E id \in CartIds : DeleteCart(sess, id)
                \/ CheckoutStart(sess)
                \/ GetOrders(sess)
           /\ resp'.status \in {400, 401, 404}) =>
              UNCHANGED <<products, cart, orders, orderItems, stock, nextId,
                          catalog>>]_vars

\* A cart update was answered 404 while the cart and the orders hold rows.
C18_Witness ==
    /\ resp = Resp("PUT /api/cart/:itemId", 404)
    /\ cart # {}
    /\ orders # {}

\* C19: every request rejected because its input fails validation is
\* answered with status 400 and a body that carries the validator's
\* field-level error list next to the message; this holds for cart-add and
\* cart-update requests as well.
C19_ValidationErrorList ==
    [][\A sess \in Users : \A q \in QtyInputs :
         /\ (/\ ~ValidCartQuantidade(q)
             /\ \E p \in ProductIds : PostCart(sess, p, q)) =>
                resp'.status = 400 /\ body'.message /\ body'.errors
         /\ (/\ q = None \/ q[1] < 1
             /\ \E id \in CartIds : PutCart(sess, id, q)) =>
                resp'.status = 400 /\ body'.message /\ body'.errors]_vars

(***************************************************************************)
(* Properties of interleaved calls.                                        *)
(***************************************************************************)
\* C20: there is at most one product_stock row per (product, location) in
\* every reachable state, including when two updateProductStock calls for
\* the same product and location interleave between the lookup of the
\* existing row and the insert.
C20_OneStockRowPerLocation ==
    \A r1 \in stock : \A r2 \in stock :
        (r1.productId = r2.productId /\ r1.localizacao = r2.localizacao)
            => r1 = r2

\* C22: when two addToCart requests for the same user and product
\* interleave at the level of their database statements, there is still a
\* single cart row for the pair and its quantity reflects both additions:
\* every addition that returns leaves at most one row for its pair and
\* raises the quantity held for the pair by the amount it adds.
C22_InterleavedAddToCart ==
    [][\A s \in Slots :
         (AddToCartWrite(s) /\ resp'.status = Returned) =>
            LET data == inflight[s].args[1]
                before == CartRowsFor(data.userId, data.productId)
                after == {r \in cart' : /\ r.userId = data.userId
                                        /\ r.productId = data.productId}
            IN /\ Cardinality(after) <= 1
               /\ \A r \in after :
                    r.quantidade = OrOne(data.quantidade)
                       + (IF before = {} THEN 0
                          ELSE (CHOOSE b \in before : TRUE).quantidade)]_vars

\* C23: when an addToCart or a cart quantity update of a user interleaves
\* with that user's checkout, every cart row and quantity that the checkout
\* deletes is reflected in the created order: nothing is removed from the
\* cart without being captured in an order item.
C23_ClearedRowsAreOrdered ==
    [][\A s \in Slots :
         (CheckoutCallStep(s) /\ inflight[s].pc = "clearCart") =>
            \A r \in cart \ cart' :
               \E oi \in orderItems :
                  /\ oi.orderId = inflight[s].local.order.id
                  /\ oi.productId = r.productId
                  /\ oi.quantidade = r.quantidade]_vars

\* C24: two checkout requests of the same user that interleave never
\* produce two orders from the same cart contents: each cart row is turned
\* into order items of at most one order.  No two checkouts in progress
\* have both inserted the order item of the same cart row.
C24_OneOrderPerCartRow ==
    \A s \in Slots : \A t \in Slots \ {s} :
       (/\ inflight[s].fn = "POST /api/checkout"
        /\ inflight[t].fn = "POST /api/checkout") =>
          \A j \in 1..(inflight[s].local.i - 1) :
             \A k \in 1..(inflight[t].local.i - 1) :
                inflight[s].local.cartItems[j].id
                   # inflight[t].local.cartItems[k].id

(***************************************************************************)
(* Properties of ownership and of the tables a request leaves alone.       *)
(***************************************************************************)
\* C25: PUT /api/cart/:itemId and DELETE /api/cart/:itemId change or remove
\* a cart row only when it belongs to the authenticated user: no request
\* made by user A alters a cart row owned by user B.
C25_CartRowOwnership ==
    [][\A sess \in Users : \A id \in CartIds :
         (\/ \E q \in QtyInputs : PutCart(sess, id, q)
          \/ DeleteCart(sess, id)) =>
            {r \in cart' : r.userId # sess} = {r \in cart : r.userId # sess}]_vars

C27_ReorderReachesHandler ==
    [][\A p \in ProductIds : \A imageOrders \in ImageOrderArrays :
         AdminReorderImages(p, Some(imageOrders)) =>
            /\ resp' = Resp("PUT /api/admin/products/:productId/images/reorder",
                            204)
            /\ images' = reorderProductImages(p, imageOrders)]_vars

\* C28: setProductTags(p, tagIds) is all-or-nothing: when it succeeds the
\* tags of p are exactly the set of tagIds, and when it fails (a repeated or
\* unknown tag id in the list) the tags p had before the call are all still
\* attached.
C28_SetProductTagsAllOrNothing ==
    [][\A pr \in SeedProducts : \A tagIds \in TagIdArrays :
         AdminSetProductTags(pr.id, Some(tagIds)) =>
            LET before == {r.tagId : r \in {x \in productTags :
                                              x.productId = pr.id}}
                after == {r.tagId : r \in {x \in productTags' :
                                             x.productId = pr.id}}
            IN IF resp'.status = 204
               THEN after = {tagIds[k] : k \in DOMAIN tagIds}
               ELSE before \subseteq after]_vars

\* C29: setPrimaryImage(p, i) changes isPrimary only on image rows whose
\* productId is p: when i belongs to another product or does not exist, no
\* image of any other product becomes primary.
C29_SetPrimaryImageFrame ==
    [][\A p \in ProductIds : \A id \in 1..MaxImages :
         AdminSetPrimaryImage(p, id) =>
            \A r \in images : r.productId # p => r \in images']_vars

====
